---- MODULE Spec2Model ----
(***************************************************************************)
(* Model of the cars-price-predictor backend (backend/predictor).          *)
(*                                                                         *)
(*  - ml_service.py: the MLModel singleton (__new__, __init__,             *)
(*    _load_model, predict) and get_price_prediction, executed by several  *)
(*    request threads whose steps interleave at the reads and writes of    *)
(*    the shared class and instance attributes.                            *)
(*  - views.py: DropdownOptionsView.get and BrandModelMappingView.get on   *)
(*    top of the process-wide cache, and the import_car_data command that  *)
(*    rewrites the CarListing table.                                       *)
(*  - views.py, serializers.py, models.py: PredictPriceView.post with the  *)
(*    PredictionInputSerializer and the Prediction table, RegisterView     *)
(*    with UserSerializer and the User table, PredictionHistoryView.       *)
(*  - views.py, authentication.py: CustomTokenObtainPairView,             *)
(*    CustomTokenRefreshView and LogoutView with the token cookies and     *)
(*    the blacklist of refresh tokens.                                     *)
(*                                                                         *)
(* SpecML runs the inference service alone.  SpecCache runs the metadata   *)
(* views one request at a time, with the clock and the import command;     *)
(* SpecCacheRace runs them concurrently on a table that does not change;   *)
(* SpecMetadata runs one computation of a view on every small table.       *)
(* SpecPredict runs prediction requests of guests and users concurrently,  *)
(* SpecRegister runs registrations concurrently, SpecHistory asks for the  *)
(* history on every small Prediction table.                                *)
(* SpecAuth runs login, refresh and logout on the clients' cookie jars.    *)
(* Each specification leaves the other parts' variables unchanged.         *)
(***************************************************************************)
EXTENDS Integers, Sequences, FiniteSets, TLC

(***************************************************************************)
(* Bounds of the model.                                                    *)
(***************************************************************************)
\* Number of request threads that may be inside get_price_prediction.
NumCallers == 2
\* Total number of get_price_prediction calls in one behaviour.
MaxCalls == 2
\* Number of times the model artifact on disk changes state.
MaxArtifactChanges == 1
\* Raw model outputs range over -RawSpan..RawSpan, in halves (raw = n / 2).
RawSpan == 1
\* Number of metadata requests in one behaviour, each by its own client.
NumClients == 2
\* Number of times the clock advances.
MaxTicks == 1
\* Number of runs of the import_car_data command.
MaxImports == 1
\* Number of rows of a table on which one computation of a view is examined.
MaxRows == 4
\* Number of distinct non-empty brands, and of car models, in those rows.
MaxRank == 2
\* Number of user accounts that send authenticated requests.
NumUsers == 2
\* Number of rows of the Prediction table that a history request reads.
MaxPredictions == 2
\* Number of tokens that the token views issue.
MaxTokens == 4

Callers == 1..NumCallers
Clients == 1..NumClients
\* An MLModel object is only constructed by a caller that saw _instance None,
\* and _instance never becomes None again: at most one object per caller.
ObjIds == 1..NumCallers

NoObj == 0
NoModel == 0
\* The price a call returns: <<>> when it raises, <<p>> when it returns p.
NoPrice == << >>
Empty == "Empty"
Record == "Record"
\* One behaviour of self._model.predict(df)[0].
Behaviour(kind, raw) == [kind |-> kind, raw |-> raw]
Raises == Behaviour("raises", 0)
NotNumeric == Behaviour("not_numeric", 0)

\* input_data of a call: an empty/None record or a validated feature record.
Inputs == {Empty, Record}
\* What self._model.predict(df)[0] can do: raise, yield a non-number, or a float.
RawOutputs == (0 - RawSpan)..RawSpan
ModelBehaviours ==
  {Raises, NotNumeric} \cup {Behaviour("value", n) : n \in RawOutputs}

VARIABLES
  \* ---- ml_service.py -------------------------------------------------
  artifact,       \* the file at ML_MODEL_PATH: "ok", "missing" or "corrupt"
  artifactChanges,
  instance,       \* MLModel._instance (class attribute), NoObj for None
  constructed,    \* number of MLModel objects constructed so far
  objModel,       \* per object: self._model, NoModel for None, else a handle
  objInit,        \* per object: hasattr(self, "_initialized")
  loadsOk,        \* number of joblib.load calls that returned a model
  firstLoadDone,  \* some _load_model execution has returned or raised
  loadFailed,     \* some _load_model execution has raised
  installedAtFirst, \* instance._model when the first load attempt completed
  calls,          \* number of get_price_prediction calls started
  mlpc,           \* per caller: position inside get_price_prediction
  mlself,         \* per caller: the object MLModel() returned
  mlafterFail,    \* per caller: the running call began after a failed load
  mllast,         \* the call that has just returned or raised (see Finished)
  \* ---- views.py (metadata), import_car_data.py ------------------------
  table,          \* the CarListing table: a set of rows
  cache,          \* django.core.cache.cache: key -> [present, value, expires]
  now,            \* the clock, in seconds
  ticks,
  imp,            \* the import command: its position and the rows it found
  imports,        \* number of import runs started
  rpc,            \* per client: position inside the view's get
  rop,            \* per client: the view, named by its cache_key
  rstep,          \* per client: index of the next query of the view
  rloc,           \* per client: the local results of the queries made so far
  rcached,        \* per client: cached_data, what cache.get returned
  robs,           \* per client: the entry at cache.get: absent, expired, live
  rlast,          \* the request answered last (see Answered)
  \* ---- views.py: one computation of a metadata view -------------------
  dataset,        \* the CarListing table the computation runs on
  computed,       \* the view computed and the value it built (see Computed)
  \* ---- views.py: PredictPriceView, PredictionHistoryView --------------
  predictions,    \* the Prediction table: a set of rows
  ppc,            \* per client: position inside PredictPriceView.post
  pdata,          \* per client: request.data, which input_data is validated from
  pprice,         \* per client: predicted_price
  plast,          \* the prediction request answered last (see Predicted)
  hlast,          \* the history request answered last (see Listed)
  \* ---- views.py: RegisterView; serializers.py: UserSerializer ----------
  accounts,       \* the auth User table: a set of rows
  upc,            \* per client: position inside RegisterView.post
  udata,          \* per client: request.data of the registration
  ulast,          \* the registration request answered last (see Registered)
  \* ---- views.py: token views, LogoutView; authentication.py -----------
  tokenUser,      \* the tokens issued so far: the user of token 1, 2, ...
  expired,        \* the tokens whose lifetime is over
  blacklist,      \* the refresh tokens in the blacklist
  jar,            \* the cookies of the browser: access_token, refresh_token
  alast           \* the auth request answered last (see Authed)

mlvars == <<artifact, artifactChanges, instance, constructed, objModel, objInit,
            loadsOk, firstLoadDone, loadFailed, installedAtFirst, calls, mlpc,
            mlself, mlafterFail, mllast>>

cachevars == <<table, cache, now, ticks, imp, imports, rpc, rop, rstep, rloc,
               rcached, robs, rlast>>

metavars == <<dataset, computed>>

predvars == <<predictions, ppc, pdata, pprice, plast, hlast>>

uservars == <<accounts, upc, udata, ulast>>

authvars == <<tokenUser, expired, blacklist, jar, alast>>

apivars == <<metavars, predvars, uservars, authvars>>

vars == <<mlvars, cachevars, apivars>>

(***************************************************************************)
(* ml_service.py: pure parts.                                              *)
(***************************************************************************)
\* One term of the exponential series of x = n / 2, in units of 1/10000:
\* x^k / k!, each term obtained from the previous one.
RECURSIVE ExpTerm(_, _)
ExpTerm(n, k) ==
  IF k = 0 THEN 10000 ELSE (ExpTerm(n, k - 1) * n) \div (2 * k)

RECURSIVE ExpSum(_, _)
ExpSum(n, k) ==
  IF k = 0 THEN ExpTerm(n, 0) ELSE ExpSum(n, k - 1) + ExpTerm(n, k)

\* A variant of line 52 that rounds to the nearest integer.
Expm1Nearest(n) == (ExpSum(n, 12) - 10000 + 5000) \div 10000

\* np.floor(np.expm1(prediction)) for prediction = n / 2: exp(x) - 1, floored
\* (\div rounds towards minus infinity, as np.floor does).
Expm1Floor(n) == (ExpSum(n, 12) - 10000) \div 10000

Outcome(kind, price) == [kind |-> kind, price |-> price]
NoOutcome == Outcome("None", NoPrice)

\* A variant of the try block that answers a default price when the model or
\* the transform raises.
PredictResultSwallow(b) ==
  IF b \in {Raises, NotNumeric}
    THEN Outcome("Price", <<0>>)
    ELSE Outcome("Price", <<Expm1Floor(b.raw)>>)

\* The try block of MLModel.predict for one behaviour b of the model:
\* self._model.predict raises, or np.expm1 raises on a non-number, and the
\* except clause logs and re-raises; otherwise the floored price is returned.
PredictResult(b) ==
  IF b \in {Raises, NotNumeric}
    THEN Outcome("InferenceError", NoPrice)
    ELSE Outcome("Price", <<Expm1Floor(b.raw)>>)

\* The record of a finished call: the caller, its input_data, whether the call
\* began after a load had failed, the load state when MLModel.predict was
\* entered ("-" if it was not entered), the model handle it invoked (NoModel
\* if none), whether its try block raised, its outcome, the frames the model
\* was invoked on and what the model did (Raises if it was not invoked).
Finished(t, d, entry, model, raised, out) ==
  [caller |-> t, input |-> d, afterFail |-> mlafterFail[t], atEntry |-> entry,
   model |-> model, raised |-> raised, out |-> out, frames |-> << >>,
   raw |-> Raises]
NoCall ==
  [caller |-> 0, input |-> Empty, afterFail |-> FALSE, atEntry |-> "-",
   model |-> NoModel, raised |-> FALSE, out |-> NoOutcome, frames |-> << >>,
   raw |-> Raises]

\* pd.DataFrame([input_data]), line 50: a frame of one row.
DataFrame(d) == <<d>>

\* The record of a call that invoked the model on frame df, the model doing b.
Invoked(call, df, b) == [call EXCEPT !.frames = <<df>>, !.raw = b]

(***************************************************************************)
(* ml_service.py: initial state.                                           *)
(***************************************************************************)
MLInit ==
  /\ artifact \in {"ok", "missing"}
  /\ artifactChanges = 0
  /\ instance = NoObj
  /\ constructed = 0
  /\ objModel = [o \in ObjIds |-> NoModel]
  /\ objInit = [o \in ObjIds |-> FALSE]
  /\ loadsOk = 0
  /\ firstLoadDone = FALSE
  /\ loadFailed = FALSE
  /\ installedAtFirst = NoModel
  /\ calls = 0
  /\ mlpc = [t \in Callers |-> "idle"]
  /\ mlself = [t \in Callers |-> NoObj]
  /\ mlafterFail = [t \in Callers |-> FALSE]
  /\ mllast = NoCall

(***************************************************************************)
(* models.py: CarListing rows.  Strings are written as their rank in       *)
(* lexicographic order, 0 being the empty string:                          *)
(*   brand 1 "Audi", 2 "BMW"; car_model 1 "A4", 2 "X3", 3 "X5";            *)
(*   fuel_type 1 "Diesel", 2 "Petrol"; transmission 1 "Automatic",         *)
(*   2 "Manual"; body 1 "SUV", 2 "Sedan"; color 1 "Black", 2 "White".      *)
(***************************************************************************)
Row(b, m, f, t, bd, c, y, d) ==
  [brand |-> b, car_model |-> m, fuel_type |-> f, transmission |-> t,
   body |-> bd, color |-> c, year_of_production |-> y, number_of_doors |-> d]

AudiA4 == Row(1, 1, 1, 1, 2, 1, 2018, 5)
BmwX5 == Row(2, 3, 2, 1, 1, 2, 2020, 5)
AudiA4Old == Row(1, 1, 2, 2, 2, 2, 2015, 3)
AudiX3 == Row(1, 2, 1, 1, 1, 1, 2019, 5)
NoBrandX3 == Row(0, 2, 1, 1, 1, 1, 2019, 4)

\* Contents of the table before the first request, and contents of the CSV
\* file at DATA_PATH when the import command reads it.
InitTables == {{}, {AudiA4, BmwX5}}
CsvContents == {{AudiA4, AudiA4Old, AudiX3, NoBrandX3}}

(***************************************************************************)
(* views.py: the values the two metadata views compute.                    *)
(***************************************************************************)
\* None, as returned by cache.get on a miss and by Min/Max over no rows.
None == << >>

DropdownKey == "dropdown_options"
MappingKey == "brand_model_mapping"
Views == {DropdownKey, MappingKey}

\* Values as they travel through the cache and the responses.
NoneValue == [kind |-> "none"]
\* The {"error": ...} body of a 500 Response.
ErrorValue == [kind |-> "error"]
DictValue(key, dict) == [kind |-> key, v |-> dict]

\* Python truthiness of what cache.get returned: None and the empty dict are
\* falsy, every other dict is truthy.
Truthy(val) == val.kind # "none" /\ DOMAIN val.v # {}

\* A variant in which the empty string counts as a value.
StrTruthyAlways(str) == TRUE

\* Truthiness of a string: only the empty string is falsy.
StrTruthy(str) == str # 0

SetMin(S) == CHOOSE x \in S : \A y \in S : x <= y
SetMax(S) == CHOOSE x \in S : \A y \in S : x >= y

\* sorted(...) of a collection of distinct values.
RECURSIVE SortedSeq(_)
SortedSeq(S) ==
  IF S = {} THEN << >> ELSE <<SetMin(S)>> \o SortedSeq(S \ {SetMin(S)})

\* CarListing.objects.values_list(field, flat=True).distinct(), sorted.
DistinctSorted(T, field) == SortedSeq({row[field] : row \in T})

\* A variant of the aggregate that reports the least value as both bounds.
AggregateMinOnly(T, field) ==
  IF T = {}
    THEN [min |-> None, max |-> None]
    ELSE [min |-> <<SetMin({row[field] : row \in T})>>,
          max |-> <<SetMin({row[field] : row \in T})>>]

\* CarListing.objects.aggregate(min=Min(field), max=Max(field)).
Aggregate(T, field) ==
  IF T = {}
    THEN [min |-> None, max |-> None]
    ELSE [min |-> <<SetMin({row[field] : row \in T})>>,
          max |-> <<SetMax({row[field] : row \in T})>>]

CategoricalFields ==
  {"brand", "car_model", "fuel_type", "transmission", "body", "color"}

\* A variant of the view without the last query and its key.
DropdownQueriesShort ==
  <<"brand", "car_model", "fuel_type", "transmission", "body", "color",
    "year_of_production">>

\* The queries of DropdownOptionsView.get, in the order of the code.
DropdownQueries ==
  <<"brand", "car_model", "fuel_type", "transmission", "body", "color",
    "year_of_production", "number_of_doors">>
DropdownKeys == {DropdownQueries[i] : i \in 1..Len(DropdownQueries)}

PairLess(p, q) == p[1] < q[1] \/ (p[1] = q[1] /\ p[2] <= q[2])

\* values_list('brand', 'car_model').distinct().order_by('brand', 'car_model')
RECURSIVE OrderedPairs(_)
OrderedPairs(S) ==
  IF S = {} THEN << >>
  ELSE LET p == CHOOSE x \in S : \A y \in S : PairLess(x, y)
       IN <<p>> \o OrderedPairs(S \ {p})

DistinctPairs(T) == OrderedPairs({<<row.brand, row.car_model>> : row \in T})

\* The queries of BrandModelMappingView.get: the one pairs query.
MappingQueries == <<"brand_model_pairs">>

Queries(view) == IF view = DropdownKey THEN DropdownQueries ELSE MappingQueries

\* The result of one query of a view on table T.
QueryResult(view, name, T) ==
  IF view = MappingKey THEN DistinctPairs(T)
  ELSE IF name \in CategoricalFields THEN DistinctSorted(T, name)
  ELSE Aggregate(T, name)

\* The loop of BrandModelMappingView.get (lines 502-507) over the pairs.
RECURSIVE GroupPairs(_, _)
GroupPairs(pairs, mapping) ==
  IF pairs = << >> THEN mapping
  ELSE LET brand == Head(pairs)[1]
           model == Head(pairs)[2]
       IN GroupPairs(Tail(pairs),
            IF StrTruthy(brand) /\ StrTruthy(model)
              THEN IF brand \in DOMAIN mapping
                     THEN [mapping EXCEPT ![brand] = Append(@, model)]
                     ELSE mapping @@ (brand :> <<model>>)
              ELSE mapping)

\* list.sort(): insertion of each element into the sorted prefix.
RECURSIVE Insert(_, _)
Insert(x, sorted) ==
  IF sorted = << >> THEN <<x>>
  ELSE IF x <= Head(sorted) THEN <<x>> \o sorted
  ELSE <<Head(sorted)>> \o Insert(x, Tail(sorted))

RECURSIVE SortList(_)
SortList(list) ==
  IF list = << >> THEN << >> ELSE Insert(Head(list), SortList(Tail(list)))

\* A variant that answers a placeholder entry when there is no pair.
BrandModelMappingPlaceholder(pairs) ==
  LET grouped == GroupPairs(pairs, << >>)
  IN IF DOMAIN grouped = {} THEN (0 :> << >>)
     ELSE [brand \in DOMAIN grouped |-> SortList(grouped[brand])]

\* Lines 501-511: group, then sort the models of each brand.
BrandModelMapping(pairs) ==
  LET grouped == GroupPairs(pairs, << >>)
  IN [brand \in DOMAIN grouped |-> SortList(grouped[brand])]

\* The value a view builds from its local query results: unique_options
\* (lines 452-467) or mapping (lines 501-511).
BuiltValue(view, loc) ==
  IF view = DropdownKey
    THEN DictValue(DropdownKey, loc)
    ELSE DictValue(MappingKey,
           BrandModelMapping(IF "brand_model_pairs" \in DOMAIN loc
                               THEN loc["brand_model_pairs"] ELSE << >>))

(***************************************************************************)
(* django.core.cache as the views use it.                                  *)
(***************************************************************************)
DropdownTimeout == 3600
MappingTimeout == 86400

\* A variant of the timeouts with the two views exchanged.
TimeoutSwapped(view) ==
  IF view = DropdownKey THEN MappingTimeout ELSE DropdownTimeout

\* timeout= of the view's cache.set.
Timeout(view) == IF view = DropdownKey THEN DropdownTimeout ELSE MappingTimeout

NoEntry == [present |-> FALSE, value |-> NoneValue, expires |-> 0]
Entry(val, exp) == [present |-> TRUE, value |-> val, expires |-> exp]

\* cache.get(key): the stored value while the entry has not expired, else None.
CacheGet(c, key, time) ==
  IF c[key].present /\ time < c[key].expires THEN c[key].value ELSE NoneValue

\* cache.set(key, value, timeout): replaces the entry, expiring timeout from now.
CacheSet(c, key, val, time, timeout) ==
  [c EXCEPT ![key] = Entry(val, time + timeout)]

\* The clock advances by half the shorter timeout or by the longer timeout.
TickSteps == {DropdownTimeout \div 2, MappingTimeout}

Response(status, body) == [status |-> status, body |-> body]

(***************************************************************************)
(* Tables on which a single computation of a metadata view is examined.    *)
(***************************************************************************)
\* A row with brand b, car model m and year y; the other fields follow them.
UniverseRow(b, m, y) == Row(b, m, m, b, m, b, y, 3 + b)

RowUniverse ==
  {UniverseRow(b, m, y) : b \in 0..MaxRank, m \in 0..MaxRank, y \in {2018, 2020}}

\* The record of one computation: the view and the value it built.
Computed(view, val) == [view |-> view, value |-> val]
NoComputed == Computed("-", NoneValue)

MetadataInit ==
  /\ dataset = {}
  /\ computed = NoComputed



(***************************************************************************)
(* models.py: Prediction; serializers.py: PredictionInputSerializer.       *)
(* Strings are ranks in alphabetical order, 0 the empty string.            *)
(***************************************************************************)
\* request.user: AnonymousUser, or the account of the access-token cookie.
Guest == 0
Users == 1..NumUsers
\* The user of a request that was answered before request.user was read.
NoUser == 0 - 1

\* Meta.fields of PredictionInputSerializer.
InputFields ==
  {"brand", "car_model", "year_of_production", "mileage", "fuel_type",
   "transmission", "body", "engine_capacity", "power", "number_of_doors",
   "color"}

\* The validators of the model fields, which the ModelSerializer copies: the
\* declared ranges of the numbers, and a CharField does not accept "".
FieldValid(field, v) ==
  CASE field = "year_of_production" -> v >= 1900 /\ v <= 2100
    [] field = "mileage" -> v >= 0
    [] field = "engine_capacity" -> v >= 0
    [] field = "power" -> v >= 0
    [] field = "number_of_doors" -> v >= 1 /\ v <= 10
    [] OTHER -> v # 0

\* The declared fields that are absent from data or fail their validators.
FieldErrors(data) ==
  {f \in InputFields : f \notin DOMAIN data \/ ~FieldValid(f, data[f])}

\* validate(): received_fields - allowed_fields.
UnknownFields(data) == DOMAIN data \ InputFields

\* A variant of is_valid without the validate() method of the serializer.
ValidationErrorsDeclaredOnly(data) == FieldErrors(data)

\* The keys of the ValidationError of is_valid: the field errors, and when
\* there are none the unknown fields that validate() rejects.
ValidationErrors(data) ==
  IF FieldErrors(data) # {} THEN FieldErrors(data) ELSE UnknownFields(data)

\* serializer.validated_data: the declared fields of data.
ValidatedData(data) == [f \in InputFields |-> data[f]]

\* The valid payload of the API tests.
PredictionData ==
  [brand |-> 1, car_model |-> 1, year_of_production |-> 2020,
   mileage |-> 50000, fuel_type |-> 1, transmission |-> 1, body |-> 1,
   engine_capacity |-> 2, power |-> 150, number_of_doors |-> 5, color |-> 1]

With(data, field, v) ==
  [f \in DOMAIN data \cup {field} |-> IF f = field THEN v ELSE data[f]]
Without(data, field) == [f \in DOMAIN data \ {field} |-> data[f]]

\* request.data of the prediction requests: valid payloads, and payloads with
\* a number out of its range, a blank or missing field, an extra field, or
\* several of these.
RequestData ==
  {PredictionData,
   With(PredictionData, "brand", 2),
   With(PredictionData, "year_of_production", 1800),
   With(PredictionData, "year_of_production", 2101),
   With(PredictionData, "mileage", 0 - 100),
   With(PredictionData, "number_of_doors", 0),
   With(PredictionData, "brand", 0),
   Without(PredictionData, "brand"),
   With(PredictionData, "extra_field", 1),
   With(With(PredictionData, "extra_field", 1), "year_of_production", 1800),
   Without(With(PredictionData, "extra_field", 1), "car_model")}

\* A variant of objects.create that leaves predicted_price at its default.
StoredWithoutPrice(id, user, data, price) ==
  [id |-> id, user |-> user, features |-> data, predicted_price |-> NoPrice]

\* A row of the Prediction table, which is also what
\* PredictionOutputSerializer (fields = '__all__') reports of it.
Stored(id, user, data, price) ==
  [id |-> id, user |-> user, features |-> data, predicted_price |-> <<price>>]

\* The body of the guest answer: the price and the input, no id.
GuestResult(data, price) ==
  [features |-> data, predicted_price |-> <<price>>]

\* The body of the 400 of a ValidationError: one key per rejected field.
FieldErrorBody(fields) == [kind |-> "field_errors", fields |-> fields]
\* The body {"error": str(e)} of the 400 of a ValueError.
DetailBody(detail) == [kind |-> "error", detail |-> detail]

\* The id the database gives to the next row.
NextId(rows) == Cardinality(rows) + 1

\* What get_price_prediction(input_data) does for a validated record: the
\* outcomes of MLModel.predict, or the model is missing or fails to load.
InferenceOutcomes ==
  {PredictResult(b) : b \in ModelBehaviours}
    \cup {Outcome("ModelUnavailable", NoPrice), Outcome("ModelLoadError", NoPrice)}

\* The class of the exception of an outcome, as the except clauses of the
\* view tell them apart: the service raises ValueError("Model is not
\* loaded"), a load re-raises what joblib raised, and the model or the
\* transform raise an exception of any class.
ExceptionClasses(kind) ==
  CASE kind = "Price" -> {"-"}
    [] kind = "ModelUnavailable" -> {"ValueError"}
    [] kind = "ModelLoadError" -> {"Exception"}
    [] OTHER -> {"ValueError", "Exception"}

\* A variant of line 255 that saves the prediction of every caller.
PersistAlways(user) == TRUE

\* request.user.is_authenticated.
Persist(user) == user # Guest

\* The record of an answered prediction request: the client, request.user
\* (NoUser if it was not read), request.data, the
\* number of calls of get_price_prediction, its outcome, the rows the request
\* created, and the Response.
Predicted(c, user, data, inferences, out, created, resp) ==
  [client |-> c, user |-> user, data |-> data, inferences |-> inferences,
   out |-> out, created |-> created, resp |-> resp]
NoPrediction ==
  Predicted(0, NoUser, PredictionData, 0, NoOutcome, {}, Response(0, NoneValue))

\* The tables a behaviour starts on: empty, or with a row saved earlier.
InitPredictions == {{}, {Stored(1, 1, PredictionData, 7)}}

\* The record of an answered history request: request.user and the Response.
Listed(user, resp) == [user |-> user, resp |-> resp]
NoListing == Listed(NoUser, Response(0, NoneValue))

PredictInit ==
  /\ predictions \in InitPredictions
  /\ ppc = [c \in Clients |-> "idle"]
  /\ pdata = [c \in Clients |-> PredictionData]
  /\ pprice = [c \in Clients |-> 0]
  /\ plast = NoPrediction
  /\ hlast = NoListing

(***************************************************************************)
(* django.contrib.auth User; serializers.py: UserSerializer.               *)
(***************************************************************************)
\* request.data of a registration: a username and an email, as ranks.
Registration(username, email) == [username |-> username, email |-> email]
NoData == Registration(0, 0)
Usernames == {1, 2}
Emails == {1, 2}

\* A row of the User table.
Account(id, username, email) ==
  [id |-> id, username |-> username, email |-> email]

\* User.objects.filter(username=...).exists() and filter(email=...).exists().
UsernameExists(rows, username) == \E a \in rows : a.username = username
EmailExists(rows, email) == \E a \in rows : a.email = email

\* The fields of data that belong to an account of rows.
Taken(rows, data) ==
  {f \in {"username", "email"} : \E a \in rows : a[f] = data[f]}

\* The record of an answered registration request: the client, its data,
\* the fields of it that an account held when the answer was made, the rows
\* the request created and the Response.
Registered(c, data, taken, created, resp) ==
  [client |-> c, data |-> data, taken |-> taken, created |-> created,
   resp |-> resp]
NoRegistration == Registered(0, NoData, {}, {}, Response(0, NoneValue))

\* The User table a behaviour starts on: empty, or with one account.
InitAccounts == {{}, {Account(1, 1, 1)}}

UserInit ==
  /\ accounts \in InitAccounts
  /\ upc = [c \in Clients |-> "idle"]
  /\ udata = [c \in Clients |-> NoData]
  /\ ulast = NoRegistration

\* The state of each of these parts while another part runs.
PredictQuiet == PredictInit /\ predictions = {}
UserQuiet == UserInit /\ accounts = {}

(***************************************************************************)
(* views.py: auth cookies and tokens; authentication.py.  A token is the   *)
(* number under which it was issued; a cookie holds a token, or Cleared    *)
(* after delete_cookie, or NoToken when there is no such cookie.           *)
(***************************************************************************)
NoToken == 0 - 1
Cleared == 0

\* The two cookies, of a browser or of a Response.
Cookies(access, refresh) == [access_token |-> access, refresh_token |-> refresh]
NoCookies == Cookies(NoToken, NoToken)

\* set_auth_cookies, lines 29-57: the access cookie always, the refresh
\* cookie only for a token that is given.
SetAuthCookies(access, refresh) == Cookies(access, refresh)

\* clear_auth_cookies, lines 59-70: delete_cookie of both names.
ClearAuthCookies == Cookies(Cleared, Cleared)

\* The bodies {"detail": message} and the user details of the serializers.
MessageBody(detail) == [kind |-> "detail", detail |-> detail]
UserBody(user) == [kind |-> "user", username |-> user]

\* The record of an answered auth request: the view, request.user, the
\* cookies the request carried, whether its refresh token was valid, what
\* became of that token, the Response and the cookies of the Response.
Authed(op, user, sent, valid, outcome, resp, cookies) ==
  [op |-> op, user |-> user, sent |-> sent, valid |-> valid,
   outcome |-> outcome, resp |-> resp, cookies |-> cookies]
NoAuth ==
  Authed("-", NoUser, NoCookies, FALSE, "-", Response(0, NoneValue), NoCookies)

AuthInit ==
  /\ tokenUser = << >>
  /\ expired = {}
  /\ blacklist = {}
  /\ jar = NoCookies
  /\ alast = NoAuth

AuthQuiet == AuthInit
ApiQuiet == MetadataInit /\ PredictQuiet /\ UserQuiet /\ AuthQuiet
\* The record of an answered request: the client, the view, what the cache
\* entry was when cache.get ran ("absent", "expired" or "live"), cached_data,
\* the number of queries made on the table, and the Response.
Answered(r, obs, cached, reads, resp) ==
  [client |-> r, view |-> rop[r], obs |-> obs, cached |-> cached,
   reads |-> reads, resp |-> resp]
NoRequest ==
  [client |-> 0, view |-> DropdownKey, obs |-> "-", cached |-> NoneValue,
   reads |-> 0, resp |-> Response(0, NoneValue)]

\* The import command is not running, or it has deleted the listings (line
\* 20); "before" remembers the listings that existed when it started.
ImportIdle == [at |-> "idle", before |-> {}]
ImportCleared(T) == [at |-> "cleared", before |-> T]

CacheInit ==
  /\ table \in InitTables
  /\ cache = [key \in Views |-> NoEntry]
  /\ now = 0
  /\ ticks = 0
  /\ imp = ImportIdle
  /\ imports = 0
  /\ rpc = [r \in Clients |-> "idle"]
  /\ rop = [r \in Clients |-> DropdownKey]
  /\ rstep = [r \in Clients |-> 1]
  /\ rloc = [r \in Clients |-> << >>]
  /\ rcached = [r \in Clients |-> NoneValue]
  /\ robs = [r \in Clients |-> "-"]
  /\ rlast = NoRequest

\* The state of each part while the other part runs alone.
MLQuiet == MLInit /\ artifact = "ok"
CacheQuiet == CacheInit /\ table = {}

InitML == MLInit /\ CacheQuiet /\ ApiQuiet
InitCache == CacheInit /\ MLQuiet /\ ApiQuiet
InitMetadata ==
  AuthQuiet /\ MetadataInit /\ PredictQuiet /\ UserQuiet /\ MLQuiet /\ CacheQuiet
InitPredict ==
  AuthQuiet /\ PredictInit /\ MetadataInit /\ UserQuiet /\ MLQuiet /\ CacheQuiet
InitHistory ==
  AuthQuiet /\ PredictQuiet /\ MetadataInit /\ UserQuiet /\ MLQuiet /\ CacheQuiet
InitAuth ==
  AuthInit /\ MetadataInit /\ PredictQuiet /\ UserQuiet /\ MLQuiet /\ CacheQuiet
InitRegister ==
  AuthQuiet /\ UserInit /\ MetadataInit /\ PredictQuiet /\ MLQuiet /\ CacheQuiet

(***************************************************************************)
(* views.py: DropdownOptionsView.get and BrandModelMappingView.get.        *)
(***************************************************************************)
\* No Response is waiting to be sent to its client.
Serving == rlast = NoRequest

\* The view returns its Response to client r: the request is recorded and
\* the locals of the view are dropped.
Answer(r, obs, cached, reads, resp) ==
  /\ rlast' = Answered(r, obs, cached, reads, resp)
  /\ rpc' = [rpc EXCEPT ![r] = "answered"]
  /\ rstep' = [rstep EXCEPT ![r] = 1]
  /\ rloc' = [rloc EXCEPT ![r] = << >>]
  /\ rcached' = [rcached EXCEPT ![r] = NoneValue]
  /\ robs' = [robs EXCEPT ![r] = "-"]

\* A client sends GET to one of the two views.  Clients that have not sent
\* their request yet are alike: the first of them sends.
Request(r) ==
  /\ Serving
  /\ rpc[r] = "idle"
  /\ \A q \in Clients : q < r => rpc[q] # "idle"
  /\ \E view \in Views : rop' = [rop EXCEPT ![r] = view]
  /\ rpc' = [rpc EXCEPT ![r] = "get"]
  /\ UNCHANGED <<mlvars, apivars, table, cache, now, ticks, imp, imports, rstep, rloc,
                 rcached, robs, rlast>>

\* Client r is inside a view.
InFlight(r) == rpc[r] \in {"get", "query", "set"}

\* A request arrives while no other request is being served.
RequestAlone(r) ==
  /\ \A q \in Clients : ~InFlight(q)
  /\ Request(r)

\* The entry under key as cache.get finds it.
Observed(c, key, time) ==
  IF ~c[key].present THEN "absent"
  ELSE IF c[key].expires <= time THEN "expired"
  ELSE "live"

\* Lines 435-438 / 488-491: cached_data = cache.get(cache_key);
\* if cached_data: return Response(cached_data).
CacheLookup(r) ==
  /\ Serving
  /\ rpc[r] = "get"
  /\ LET got == CacheGet(cache, rop[r], now)
         obs == Observed(cache, rop[r], now)
     IN IF Truthy(got)
          THEN Answer(r, obs, got, 0, Response(200, got))
          ELSE /\ rcached' = [rcached EXCEPT ![r] = got]
               /\ robs' = [robs EXCEPT ![r] = obs]
               /\ rpc' = [rpc EXCEPT ![r] = "query"]
               /\ UNCHANGED <<rstep, rloc, rlast>>
  /\ UNCHANGED <<mlvars, apivars, table, cache, now, ticks, imp, imports, rop>>

\* Lines 441-450 / 494-503: the next query of the view runs on the table as
\* it is now.
Query(r) ==
  /\ Serving
  /\ rpc[r] = "query"
  /\ LET name == Queries(rop[r])[rstep[r]]
     IN rloc' = [rloc EXCEPT ![r] =
                   @ @@ (name :> QueryResult(rop[r], name, table))]
  /\ rstep' = [rstep EXCEPT ![r] = @ + 1]
  /\ rpc' = [rpc EXCEPT ![r] =
               IF rstep[r] = Len(Queries(rop[r])) THEN "set" ELSE "query"]
  /\ UNCHANGED <<mlvars, apivars, table, cache, now, ticks, imp, imports, rop, rcached,
                 robs, rlast>>

\* A variant of the except clause that answers with what has been computed.
FailureResponsePartial(view, loc) == Response(200, BuiltValue(view, loc))

\* The except clause (lines 474-479 / 518-523): the locals of the view are
\* dropped and the Response is the error body with status 500.
FailureResponse(view, loc) == Response(500, ErrorValue)

\* A variant of the except clause that stores what has been computed.
ExceptClauseCacheStored(c, key, loc, time) ==
  CacheSet(c, key, BuiltValue(key, loc), time, Timeout(key))

\* The except clause (lines 474-479 / 518-523) holds no cache.set: the cache
\* stays as the failing request found it.
ExceptClauseCache(c, key, loc, time) == c

\* The next query fails (database unreachable, column missing): the exception
\* reaches the except clause (lines 474-479 / 518-523), which answers 500;
\* the cache is not touched.
QueryFails(r) ==
  /\ Serving
  /\ rpc[r] = "query"
  /\ Answer(r, robs[r], rcached[r], rstep[r] - 1,
            FailureResponse(rop[r], rloc[r]))
  /\ cache' = ExceptClauseCache(cache, rop[r], rloc[r], now)
  /\ UNCHANGED <<mlvars, apivars, table, now, ticks, imp, imports, rop>>

\* A variant in which the view publishes while its queries are still running.
AtCacheSetEarly(r) == rpc[r] \in {"query", "set"}

\* The view has made all its queries and stands before cache.set.
AtCacheSet(r) == rpc[r] = "set"

\* Lines 452-472 / 501-516: build the value, cache.set(cache_key, value,
\* timeout), return Response(value).
CacheStore(r) ==
  /\ Serving
  /\ AtCacheSet(r)
  /\ LET val == BuiltValue(rop[r], rloc[r])
     IN /\ cache' = CacheSet(cache, rop[r], val, now, Timeout(rop[r]))
        /\ Answer(r, robs[r], rcached[r], rstep[r] - 1, Response(200, val))
  /\ UNCHANGED <<mlvars, apivars, table, now, ticks, imp, imports, rop>>

\* Time passes.
Tick ==
  /\ Serving
  /\ ticks < MaxTicks
  /\ ticks' = ticks + 1
  /\ \E d \in TickSteps : now' = now + d
  /\ UNCHANGED <<mlvars, apivars, table, cache, imp, imports, rpc, rop, rstep, rloc,
                 rcached, robs, rlast>>

(***************************************************************************)
(* import_car_data.py: Command.handle.                                     *)
(***************************************************************************)
\* Lines 11-20: return if the CSV file does not exist, else delete all rows.
ImportClear ==
  /\ Serving
  /\ imp = ImportIdle
  /\ imports < MaxImports
  /\ imports' = imports + 1
  /\ \E exists \in BOOLEAN :
       IF exists
         THEN table' = {} /\ imp' = ImportCleared(table)
         ELSE UNCHANGED <<table, imp>>
  /\ UNCHANGED <<mlvars, apivars, cache, now, ticks, rpc, rop, rstep, rloc, rcached,
                 robs, rlast>>

\* Lines 22-41: pd.read_csv raises, or a required column is missing: the
\* command writes an error and returns.
ImportFails ==
  /\ Serving
  /\ imp.at = "cleared"
  /\ imp' = ImportIdle
  /\ UNCHANGED <<mlvars, apivars, table, cache, now, ticks, imports, rpc, rop, rstep,
                 rloc, rcached, robs, rlast>>

\* Lines 43-53: bulk_create the rows of the CSV.
ImportLoad ==
  /\ Serving
  /\ imp.at = "cleared"
  /\ imp' = ImportIdle
  /\ \E rows \in CsvContents : table' = table \cup rows
  /\ UNCHANGED <<mlvars, apivars, cache, now, ticks, imports, rpc, rop, rstep, rloc,
                 rcached, robs, rlast>>

\* The Response of the answered request is sent to the client.
Respond ==
  /\ rlast # NoRequest
  /\ rlast' = NoRequest
  /\ UNCHANGED <<mlvars, apivars, table, cache, now, ticks, imp, imports, rpc, rop,
                 rstep, rloc, rcached, robs>>

\* Requests served one at a time, while the clock advances and the import
\* command rewrites the table.
NextCache ==
  \/ \E r \in Clients : RequestAlone(r)
  \/ \E r \in Clients : CacheLookup(r)
  \/ \E r \in Clients : Query(r)
  \/ \E r \in Clients : QueryFails(r)
  \/ \E r \in Clients : CacheStore(r)
  \/ Tick
  \/ ImportClear
  \/ ImportFails
  \/ ImportLoad
  \/ Respond

SpecCache == InitCache /\ [][NextCache]_vars

\* Requests served concurrently: every interleaving of the steps of the views,
\* on a table that does not change.
NextCacheRace ==
  \/ \E r \in Clients : Request(r)
  \/ \E r \in Clients : CacheLookup(r)
  \/ \E r \in Clients : Query(r)
  \/ \E r \in Clients : QueryFails(r)
  \/ \E r \in Clients : CacheStore(r)
  \/ Tick
  \/ Respond

SpecCacheRace == InitCache /\ [][NextCacheRace]_vars


\* The names of all the queries of a view.
QueryNames(view) == {Queries(view)[i] : i \in 1..Len(Queries(view))}

\* The value a view computes when all its queries run on table T.
Reference(view, T) ==
  BuiltValue(view, [name \in QueryNames(view) |-> QueryResult(view, name, T)])
(***************************************************************************)
(* ml_service.py: one action per step of get_price_prediction.             *)
(***************************************************************************)
\* The model reference the service has installed: MLModel._instance._model.
Installed == IF instance = NoObj THEN NoModel ELSE objModel[instance]

\* No finished call is waiting to be handed back to its caller.
Running == mllast = NoCall

\* get_price_prediction returns or raises in caller t: the call is recorded
\* and the thread's locals are dropped.
Leave(t) ==
  /\ mlpc' = [mlpc EXCEPT ![t] = "idle"]
  /\ mlself' = [mlself EXCEPT ![t] = NoObj]
  /\ mlafterFail' = [mlafterFail EXCEPT ![t] = FALSE]

Return(t, d, entry, model, raised, out) ==
  /\ mllast' = Finished(t, d, entry, model, raised, out)
  /\ Leave(t)

\* get_price_prediction(input_data) is called (line 64).  Idle threads are
\* alike: the call runs in the first of them.  input_data is not looked at
\* before MLModel.predict reads it, and its value is drawn there.
Call(t) ==
  /\ Running
  /\ mlpc[t] = "idle"
  /\ \A u \in Callers : u < t => mlpc[u] # "idle"
  /\ calls < MaxCalls
  /\ calls' = calls + 1
  /\ mlpc' = [mlpc EXCEPT ![t] = "new_check"]
  /\ mlafterFail' = [mlafterFail EXCEPT ![t] = loadFailed]
  /\ UNCHANGED <<cachevars, apivars, artifact, artifactChanges, instance, constructed,
                 objModel, objInit, loadsOk, firstLoadDone, loadFailed,
                 installedAtFirst, mlself, mllast>>

\* MLModel.__new__, line 16: if cls._instance is None.
NewCheck(t) ==
  /\ Running
  /\ mlpc[t] = "new_check"
  /\ mlpc' = [mlpc EXCEPT ![t] =
                IF instance = NoObj THEN "new_create" ELSE "new_return"]
  /\ UNCHANGED <<cachevars, apivars, artifact, artifactChanges, instance, constructed,
                 objModel, objInit, loadsOk, firstLoadDone, loadFailed,
                 installedAtFirst, calls, mlself, mlafterFail, mllast>>

\* MLModel.__new__, line 17: cls._instance = super().__new__(cls).
NewCreate(t) ==
  /\ Running
  /\ mlpc[t] = "new_create"
  /\ constructed' = constructed + 1
  /\ instance' = constructed + 1
  /\ mlpc' = [mlpc EXCEPT ![t] = "new_return"]
  /\ UNCHANGED <<cachevars, apivars, artifact, artifactChanges, objModel, objInit,
                 loadsOk, firstLoadDone, loadFailed, installedAtFirst, calls,
                 mlself, mlafterFail, mllast>>

\* MLModel.__new__, line 18: return cls._instance; __init__ then runs on it.
NewReturn(t) ==
  /\ Running
  /\ mlpc[t] = "new_return"
  /\ mlself' = [mlself EXCEPT ![t] = instance]
  /\ mlpc' = [mlpc EXCEPT ![t] = "init_check"]
  /\ UNCHANGED <<cachevars, apivars, artifact, artifactChanges, instance, constructed,
                 objModel, objInit, loadsOk, firstLoadDone, loadFailed,
                 installedAtFirst, calls, mlafterFail, mllast>>

\* MLModel.__init__, line 21: if not hasattr(self, "_initialized").
InitCheck(t) ==
  /\ Running
  /\ mlpc[t] = "init_check"
  /\ mlpc' = [mlpc EXCEPT ![t] =
                IF objInit[mlself[t]] THEN "predict_check" ELSE "load_exists"]
  /\ UNCHANGED <<cachevars, apivars, artifact, artifactChanges, instance, constructed,
                 objModel, objInit, loadsOk, firstLoadDone, loadFailed,
                 installedAtFirst, calls, mlself, mlafterFail, mllast>>

\* The except clause of _load_model (lines 36-39): self._model = None, and the
\* exception leaves __init__ and get_price_prediction; _initialized stays unset.
LoadFails(t) ==
  /\ objModel' = [objModel EXCEPT ![mlself[t]] = NoModel]
  /\ \E d \in Inputs :
       Return(t, d, "-", NoModel, FALSE, Outcome("ModelLoadError", NoPrice))
  /\ loadFailed' = TRUE
  /\ firstLoadDone' = TRUE
  /\ installedAtFirst' =
       IF firstLoadDone THEN installedAtFirst ELSE objModel'[instance]

\* _load_model, line 29: if not os.path.exists(model_path): raise.
LoadExists(t) ==
  /\ Running
  /\ mlpc[t] = "load_exists"
  /\ IF artifact = "missing"
       THEN LoadFails(t)
       ELSE /\ mlpc' = [mlpc EXCEPT ![t] = "load_read"]
            /\ UNCHANGED <<objModel, loadFailed, firstLoadDone,
                           installedAtFirst, mlself, mlafterFail, mllast>>
  /\ UNCHANGED <<cachevars, apivars, artifact, artifactChanges, instance, constructed,
                 objInit, loadsOk, calls>>

\* _load_model, line 33: self._model = joblib.load(model_path); every load
\* that succeeds yields a new model object.
LoadRead(t) ==
  /\ Running
  /\ mlpc[t] = "load_read"
  /\ IF artifact = "ok"
       THEN /\ loadsOk' = loadsOk + 1
            /\ objModel' = [objModel EXCEPT ![mlself[t]] = loadsOk + 1]
            /\ mlpc' = [mlpc EXCEPT ![t] = "init_set"]
            /\ firstLoadDone' = TRUE
            /\ installedAtFirst' =
                 IF firstLoadDone THEN installedAtFirst ELSE objModel'[instance]
            /\ UNCHANGED <<loadFailed, mlself, mlafterFail, mllast>>
       ELSE /\ LoadFails(t)
            /\ UNCHANGED loadsOk
  /\ UNCHANGED <<cachevars, apivars, artifact, artifactChanges, instance, constructed,
                 objInit, calls>>

\* MLModel.__init__, line 23: self._initialized = True.
InitSet(t) ==
  /\ Running
  /\ mlpc[t] = "init_set"
  /\ objInit' = [objInit EXCEPT ![mlself[t]] = TRUE]
  /\ mlpc' = [mlpc EXCEPT ![t] = "predict_check"]
  /\ UNCHANGED <<cachevars, apivars, artifact, artifactChanges, instance, constructed,
                 objModel, loadsOk, firstLoadDone, loadFailed,
                 installedAtFirst, calls, mlself, mlafterFail, mllast>>

\* A variant of the guards of MLModel.predict that tests the model first.
PredictGuardModelFirst(d, m) ==
  IF m = NoModel THEN Outcome("ModelUnavailable", NoPrice)
  ELSE IF d = Empty THEN Outcome("InvalidInput", NoPrice)
  ELSE NoOutcome

\* MLModel.predict, lines 42-46: the two guards, in the order of the code.
PredictGuard(d, m) ==
  IF d = Empty THEN Outcome("InvalidInput", NoPrice)
  ELSE IF m = NoModel THEN Outcome("ModelUnavailable", NoPrice)
  ELSE NoOutcome

\* MLModel.predict is entered (line 41) and its guards run (lines 42-46).
PredictCheck(t) ==
  /\ Running
  /\ mlpc[t] = "predict_check"
  /\ \E d \in Inputs :
       LET guard == PredictGuard(d, objModel[mlself[t]])
           entry == IF objModel[mlself[t]] = NoModel THEN "none" ELSE "loaded"
       IN IF guard = NoOutcome
            THEN /\ mlpc' = [mlpc EXCEPT ![t] = "predict_invoke"]
                 /\ UNCHANGED <<mlself, mlafterFail, mllast>>
            ELSE Return(t, d, entry, NoModel, FALSE, guard)
  /\ UNCHANGED <<cachevars, apivars, artifact, artifactChanges, instance, constructed,
                 objModel, objInit, loadsOk, firstLoadDone, loadFailed,
                 installedAtFirst, calls>>

\* MLModel.predict, lines 48-62: the try block, reached with a feature record
\* and a model seen loaded by the guards. self._model is read again at line 51;
\* if a failed load of another caller has reset it to None meanwhile, the
\* attribute access raises inside the try block.
PredictInvoke(t) ==
  /\ Running
  /\ mlpc[t] = "predict_invoke"
  /\ IF objModel[mlself[t]] = NoModel
       THEN Return(t, Record, "loaded", NoModel, TRUE, PredictResult(Raises))
       ELSE \E b \in ModelBehaviours :
              /\ mllast' =
                   Invoked(Finished(t, Record, "loaded", objModel[mlself[t]],
                                    b \in {Raises, NotNumeric}, PredictResult(b)),
                           DataFrame(Record), b)
              /\ Leave(t)
  /\ UNCHANGED <<cachevars, apivars, artifact, artifactChanges, instance, constructed,
                 objModel, objInit, loadsOk, firstLoadDone, loadFailed,
                 installedAtFirst, calls>>

\* The environment replaces, removes or damages the file at ML_MODEL_PATH.
ArtifactChange ==
  /\ Running
  /\ artifactChanges < MaxArtifactChanges
  /\ artifactChanges' = artifactChanges + 1
  /\ artifact' \in {"ok", "missing", "corrupt"} \ {artifact}
  /\ UNCHANGED <<cachevars, apivars, instance, constructed, objModel, objInit, loadsOk,
                 firstLoadDone, loadFailed, installedAtFirst, calls, mlpc,
                 mlself, mlafterFail, mllast>>

\* The caller receives the result or the exception of the finished call.
Deliver ==
  /\ mllast # NoCall
  /\ mllast' = NoCall
  /\ UNCHANGED <<cachevars, apivars, artifact, artifactChanges, instance, constructed,
                 objModel, objInit, loadsOk, firstLoadDone, loadFailed,
                 installedAtFirst, calls, mlpc, mlself, mlafterFail>>

NextML ==
  \/ \E t \in Callers : Call(t)
  \/ \E t \in Callers : NewCheck(t)
  \/ \E t \in Callers : NewCreate(t)
  \/ \E t \in Callers : NewReturn(t)
  \/ \E t \in Callers : InitCheck(t)
  \/ \E t \in Callers : LoadExists(t)
  \/ \E t \in Callers : LoadRead(t)
  \/ \E t \in Callers : InitSet(t)
  \/ \E t \in Callers : PredictCheck(t)
  \/ \E t \in Callers : PredictInvoke(t)
  \/ ArtifactChange
  \/ Deliver

SpecML == InitML /\ [][NextML]_vars


(***************************************************************************)
(* views.py: one computation of a view on a miss, all its queries on the   *)
(* same table (lines 441-467 / 494-511).                                   *)
(***************************************************************************)
\* A row is inserted into the table before the view is called.
AddRow ==
  /\ computed = NoComputed
  /\ Cardinality(dataset) < MaxRows
  /\ \E row \in RowUniverse \ dataset : dataset' = dataset \cup {row}
  /\ UNCHANGED <<mlvars, cachevars, authvars, predvars, uservars, computed>>

Compute(view) ==
  /\ computed = NoComputed
  /\ computed' = Computed(view, Reference(view, dataset))
  /\ UNCHANGED <<mlvars, cachevars, authvars, predvars, uservars, dataset>>

NextMetadata ==
  \/ AddRow
  \/ \E view \in Views : Compute(view)

SpecMetadata == InitMetadata /\ [][NextMetadata]_vars

\* The (brand, car_model) pairs of the rows of T whose brand and car_model
\* are both non-empty.
ValidPairs(T) ==
  {<<row.brand, row.car_model>> :
     row \in {x \in T : x.brand # 0 /\ x.car_model # 0}}

StrictlyAscending(seq) == \A i \in 1..(Len(seq) - 1) : seq[i] < seq[i + 1]
Elements(seq) == {seq[i] : i \in 1..Len(seq)}

\* The values of one field over the rows of T.
FieldValues(T, field) == {row[field] : row \in T}
NumericFields == {"year_of_production", "number_of_doors"}

(***************************************************************************)
(* views.py: PredictPriceView.post (lines 248-287).                        *)
(***************************************************************************)
\* No Response of the prediction API is waiting to be sent.
PredictServing == plast = NoPrediction /\ hlast = NoListing

\* The view returns its Response to client c and its locals are dropped.
PredictAnswer(c, user, data, inferences, out, created, resp) ==
  /\ plast' = Predicted(c, user, data, inferences, out, created, resp)
  /\ ppc' = [ppc EXCEPT ![c] = "answered"]
  /\ pdata' = [pdata EXCEPT ![c] = PredictionData]
  /\ pprice' = [pprice EXCEPT ![c] = 0]

\* A client sends POST /predict/.  Clients that have not sent their request
\* yet are alike: the first of them sends.
PredictPost(c) ==
  /\ PredictServing
  /\ ppc[c] = "idle"
  /\ \A q \in Clients : q < c => ppc[q] # "idle"
  /\ ppc' = [ppc EXCEPT ![c] = "post"]
  /\ UNCHANGED <<mlvars, cachevars, authvars, metavars, uservars, predictions, pdata,
                 pprice, plast, hlast>>

\* Lines 250-252 and 273-275: is_valid on request.data; a ValidationError is
\* logged and re-raised, which the framework answers with 400 and the
\* errors by field; otherwise input_data is ValidatedData of it.
PredictValidate(c) ==
  /\ PredictServing
  /\ ppc[c] = "post"
  /\ \E data \in RequestData :
       IF ValidationErrors(data) # {}
         THEN PredictAnswer(c, NoUser, data, 0, NoOutcome, {},
                Response(400, FieldErrorBody(ValidationErrors(data))))
         ELSE /\ pdata' = [pdata EXCEPT ![c] = data]
              /\ ppc' = [ppc EXCEPT ![c] = "valid"]
              /\ UNCHANGED <<pprice, plast>>
  /\ UNCHANGED <<mlvars, cachevars, authvars, metavars, uservars, predictions,
                 hlast>>

\* The Response of the except clauses of lines 276-287 for an exception of
\* class cls raised with message detail.
ExceptionResponse(cls, detail) ==
  IF cls = "ValueError" THEN Response(400, DetailBody(detail))
  ELSE Response(500, ErrorValue)

\* A variant that creates the row before line 253 and leaves it behind when
\* inference raises.
AfterFailureDraftKept(rows, data) ==
  rows \cup {StoredWithoutPrice(NextId(rows), NoUser, ValidatedData(data), 0)}

\* The Prediction table after the except clauses of lines 273-287, which
\* write nothing: objects.create (line 257) comes after line 253.
AfterFailure(rows, data) == rows

\* Line 253: predicted_price = get_price_prediction(input_data), once; an
\* exception leaves the try block for one of the except clauses.
PredictInfer(c) ==
  /\ PredictServing
  /\ ppc[c] = "valid"
  /\ \E out \in InferenceOutcomes : \E cls \in ExceptionClasses(out.kind) :
       IF out.kind = "Price"
         THEN /\ pprice' = [pprice EXCEPT ![c] = out.price[1]]
              /\ ppc' = [ppc EXCEPT ![c] = "priced"]
              /\ UNCHANGED <<pdata, plast, predictions>>
         ELSE /\ predictions' = AfterFailure(predictions, pdata[c])
              /\ PredictAnswer(c, NoUser, pdata[c], 1, out,
                   predictions' \ predictions,
                   ExceptionResponse(cls, out.kind))
  /\ UNCHANGED <<mlvars, cachevars, authvars, metavars, uservars, hlast>>

\* Lines 255-271: an authenticated caller's prediction is created in the
\* table and reported with 201; a guest gets the price and the input, 200.
PredictFinish(c) ==
  /\ PredictServing
  /\ ppc[c] = "priced"
  /\ \E user \in {Guest} \cup Users :
       IF Persist(user)
         THEN /\ predictions' = predictions \cup
                   {Stored(NextId(predictions), user, ValidatedData(pdata[c]),
                           pprice[c])}
              /\ PredictAnswer(c, user, pdata[c], 1,
                   Outcome("Price", <<pprice[c]>>), predictions' \ predictions,
                   Response(201, Stored(NextId(predictions), user,
                                        ValidatedData(pdata[c]), pprice[c])))
         ELSE /\ predictions' = predictions
              /\ PredictAnswer(c, user, pdata[c], 1,
                   Outcome("Price", <<pprice[c]>>), {},
                   Response(200, GuestResult(ValidatedData(pdata[c]), pprice[c])))
  /\ UNCHANGED <<mlvars, cachevars, authvars, metavars, uservars, hlast>>

\* Lines 257-261 and 282-287: objects.create raises (the database fails),
\* no row is written and the view answers 500.
PredictCreateFails(c) ==
  /\ PredictServing
  /\ ppc[c] = "priced"
  /\ \E user \in Users :
       PredictAnswer(c, user, pdata[c], 1, Outcome("Price", <<pprice[c]>>), {},
         Response(500, ErrorValue))
  /\ UNCHANGED <<mlvars, cachevars, authvars, metavars, uservars, predictions,
                 hlast>>

\* The Response of the last answered prediction request reaches its client.
PredictRespond ==
  /\ plast # NoPrediction
  /\ plast' = NoPrediction
  /\ ppc' = [ppc EXCEPT ![plast.client] = "done"]
  /\ UNCHANGED <<mlvars, cachevars, authvars, metavars, uservars, predictions, pdata,
                 pprice, hlast>>

NextPredict ==
  \/ \E c \in Clients : PredictPost(c)
  \/ \E c \in Clients : PredictValidate(c)
  \/ \E c \in Clients : PredictInfer(c)
  \/ \E c \in Clients : PredictFinish(c)
  \/ \E c \in Clients : PredictCreateFails(c)
  \/ PredictRespond

SpecPredict == InitPredict /\ [][NextPredict]_vars

(***************************************************************************)
(* views.py: RegisterView.post (lines 210-218); serializers.py:            *)
(* UserSerializer.validate and create (lines 67-97).  Each query of the    *)
(* User table is a step of its own, so that requests interleave there.     *)
(***************************************************************************)
RegisterServing == ulast = NoRegistration

\* The view answers client c; the fields of its data that are taken are
\* those of the table before the step.
RegisterAnswer(c, created, resp) ==
  /\ ulast' = Registered(c, udata[c], Taken(accounts, udata[c]), created, resp)
  /\ upc' = [upc EXCEPT ![c] = "answered"]
  /\ udata' = [udata EXCEPT ![c] = NoData]

\* A client sends POST /register/.  Clients that have not sent their request
\* yet are alike: the first of them sends.
RegisterPost(c) ==
  /\ RegisterServing
  /\ upc[c] = "idle"
  /\ \A q \in Clients : q < c => upc[q] # "idle"
  /\ \E username \in Usernames : \E email \in Emails :
       udata' = [udata EXCEPT ![c] = Registration(username, email)]
  /\ upc' = [upc EXCEPT ![c] = "username"]
  /\ UNCHANGED <<mlvars, cachevars, authvars, metavars, predvars, accounts, ulast>>

\* validate(), lines 76-81: the passwords differ, or an account with the
\* username exists: ValidationError, re-raised at line 218 and answered 400.
RegisterCheckUsername(c) ==
  /\ RegisterServing
  /\ upc[c] = "username"
  /\ \E passwordsMatch \in BOOLEAN :
       IF ~passwordsMatch
         THEN RegisterAnswer(c, {}, Response(400, FieldErrorBody({"password"})))
       ELSE IF UsernameExists(accounts, udata[c].username)
         THEN RegisterAnswer(c, {}, Response(400, FieldErrorBody({"username"})))
       ELSE /\ upc' = [upc EXCEPT ![c] = "email"]
            /\ UNCHANGED <<udata, ulast>>
  /\ UNCHANGED <<mlvars, cachevars, authvars, metavars, predvars, accounts>>

\* validate(), lines 84-87: an account with the email exists.
RegisterCheckEmail(c) ==
  /\ RegisterServing
  /\ upc[c] = "email"
  /\ IF EmailExists(accounts, udata[c].email)
       THEN RegisterAnswer(c, {}, Response(400, FieldErrorBody({"email"})))
       ELSE /\ upc' = [upc EXCEPT ![c] = "create"]
            /\ UNCHANGED <<udata, ulast>>
  /\ UNCHANGED <<mlvars, cachevars, authvars, metavars, predvars, accounts>>

\* serializer.save(), lines 91-96, and line 215: User.objects.create inserts
\* the row.  The table has a unique index on username and none on email: an
\* insert with a username that is present raises IntegrityError, which the
\* except clause of line 216 does not catch (status 500).
RegisterCreate(c) ==
  /\ RegisterServing
  /\ upc[c] = "create"
  /\ IF UsernameExists(accounts, udata[c].username)
       THEN /\ accounts' = accounts
            /\ RegisterAnswer(c, {}, Response(500, ErrorValue))
       ELSE /\ accounts' = accounts \cup
                 {Account(NextId(accounts), udata[c].username, udata[c].email)}
            /\ RegisterAnswer(c, accounts' \ accounts,
                 Response(201, udata[c]))
  /\ UNCHANGED <<mlvars, cachevars, authvars, metavars, predvars>>

RegisterRespond ==
  /\ ulast # NoRegistration
  /\ ulast' = NoRegistration
  /\ upc' = [upc EXCEPT ![ulast.client] = "done"]
  /\ UNCHANGED <<mlvars, cachevars, authvars, metavars, predvars, accounts, udata>>

NextRegister ==
  \/ \E c \in Clients : RegisterPost(c)
  \/ \E c \in Clients : RegisterCheckUsername(c)
  \/ \E c \in Clients : RegisterCheckEmail(c)
  \/ \E c \in Clients : RegisterCreate(c)
  \/ RegisterRespond

SpecRegister == InitRegister /\ [][NextRegister]_vars

(***************************************************************************)
(* views.py: PredictionHistoryView (lines 289-427).  A query parameter is  *)
(* << >> when it is absent and <<v>> when it is given; the timestamp of a  *)
(* row is its id, each row being created on a day of its own.              *)
(***************************************************************************)
Absent == << >>
Given(param) == param # Absent

\* timestamp__date of a row.
TimestampDate(row) == row.id

\* A variant of line 311 that does not filter by the requesting user.
OwnedByAnyone(rows, user) == rows

\* Line 311: Prediction.objects.filter(user=request.user).
OwnedBy(rows, user) == {row \in rows : row.user = user}

\* get_queryset, lines 310-356: each given (and, for the two strings,
\* non-empty) parameter narrows the queryset of the user's rows.
GetQueryset(rows, user, q) ==
  {row \in OwnedBy(rows, user) :
     /\ Given(q.start_date) => TimestampDate(row) >= q.start_date[1]
     /\ Given(q.end_date) => TimestampDate(row) <= q.end_date[1]
     /\ Given(q.min_price) => row.predicted_price[1] >= q.min_price[1]
     /\ Given(q.max_price) => row.predicted_price[1] <= q.max_price[1]
     /\ (Given(q.brand) /\ StrTruthy(q.brand[1]))
          => row.features.brand = q.brand[1]
     /\ (Given(q.car_model) /\ StrTruthy(q.car_model[1]))
          => row.features.car_model = q.car_model[1]}

\* valid_sort_fields, lines 394-397.
ValidSortFields ==
  {"timestamp", "-timestamp", "predicted_price", "-predicted_price"}

\* The key by which the rows ascend: order_by(sort) for a valid sort (line
\* 404), else Meta.ordering = ['-timestamp'] of the model.
SortKey(row, sort) ==
  CASE sort = "timestamp" -> TimestampDate(row)
    [] sort = "predicted_price" -> row.predicted_price[1]
    [] sort = "-predicted_price" -> 0 - row.predicted_price[1]
    [] OTHER -> 0 - TimestampDate(row)

RECURSIVE AllOrders(_)
AllOrders(S) ==
  IF S = {} THEN {<< >>}
  ELSE UNION {{<<x>> \o p : p \in AllOrders(S \ {x})} : x \in S}

\* The orders in which the database may return the rows: ascending by the
\* key, rows with equal keys in any order.
Orderings(S, sort) ==
  {seq \in AllOrders(S) :
     \A i \in 1..Len(seq) : \A j \in 1..Len(seq) :
       i < j => SortKey(seq[i], sort) <= SortKey(seq[j], sort)}

\* Paginator.num_pages: ceil(max(1, count) / per_page).
NumPages(count, perPage) ==
  ((IF count = 0 THEN 1 ELSE count) + perPage - 1) \div perPage

Min(a, b) == IF a < b THEN a ELSE b

\* Page.object_list: the slice [(page - 1) * per_page, page * per_page).
PageOf(order, page, perPage) ==
  SubSeq(order, (page - 1) * perPage + 1, Min(page * perPage, Len(order)))

\* The body of the 200: lines 382-388.
ListingBody(order, page, perPage) ==
  [count |-> Len(order), total_pages |-> NumPages(Len(order), perPage),
   current_page |-> page, page_size |-> perPage,
   results |-> PageOf(order, page, perPage)]

max_page_size == 100
default_page_size == 10

\* get_paginated_response, lines 358-388, and the except clauses of get: a
\* page_size of 0 makes Paginator divide by zero (500), a page below 1 or
\* above num_pages is EmptyPage (ValidationError, 400).
GetPaginatedResponse(order, q) ==
  LET perPage == IF Given(q.page_size)
                   THEN Min(q.page_size[1], max_page_size)
                   ELSE default_page_size
      page == IF Given(q.page) THEN q.page[1] ELSE 1
  IN  IF perPage = 0 THEN Response(500, ErrorValue)
      ELSE IF page < 1 \/ page > NumPages(Len(order), perPage)
        THEN Response(400, FieldErrorBody({"page"}))
      ELSE Response(200, ListingBody(order, page, perPage))

\* request.query_params of the history requests.
HistoryQueries ==
  [sort : {"", "timestamp", "-predicted_price"},
   page : {Absent, <<2>>},
   page_size : {Absent, <<0>>, <<1>>},
   start_date : {Absent, <<2>>},
   end_date : {Absent, <<1>>},
   min_price : {Absent, <<2>>},
   max_price : {Absent, <<1>>},
   brand : {Absent, <<2>>},
   car_model : {Absent, <<1>>}]

\* The rows a request of user u may have created in the table: a brand and a
\* car model with a price.
HistoryRows(id) ==
  {Stored(id, u, With(With(PredictionData, "brand", k[1]), "car_model", k[2]),
          k[3]) :
     u \in Users, k \in {<<1, 1, 1>>, <<2, 1, 2>>, <<1, 2, 2>>}}

\* The status of a request that IsAuthenticated (line 306) refuses: the
\* authentication class derives from JWTAuthentication, which names a
\* WWW-Authenticate header, so the refusal is 401 and not 403.
NotAuthenticatedStatus == 401

\* A row is created in the table before the history is asked for.
AddPrediction ==
  /\ hlast = NoListing
  /\ Cardinality(predictions) < MaxPredictions
  /\ \E row \in HistoryRows(NextId(predictions)) :
       predictions' = predictions \cup {row}
  /\ UNCHANGED <<mlvars, cachevars, authvars, metavars, uservars, ppc, pdata, pprice,
                 plast, hlast>>

\* GET /predictions/: a request without an authenticated user is refused
\* before get runs; otherwise get answers with the page of the queryset.
HistoryGet ==
  /\ hlast = NoListing
  /\ \E user \in {Guest} \cup Users :
       IF user = Guest
         THEN hlast' = Listed(user, Response(NotAuthenticatedStatus,
                                             DetailBody("NotAuthenticated")))
         ELSE \E q \in HistoryQueries :
                \E order \in Orderings(GetQueryset(predictions, user, q),
                                       IF q.sort \in ValidSortFields
                                         THEN q.sort ELSE "") :
                  hlast' = Listed(user, GetPaginatedResponse(order, q))
  /\ UNCHANGED <<mlvars, cachevars, authvars, metavars, uservars, predictions, ppc,
                 pdata, pprice, plast>>

HistoryRespond ==
  /\ hlast # NoListing
  /\ hlast' = NoListing
  /\ UNCHANGED <<mlvars, cachevars, authvars, metavars, uservars, predictions, ppc,
                 pdata, pprice, plast>>

NextHistory ==
  \/ AddPrediction
  \/ HistoryGet
  \/ HistoryRespond

SpecHistory == InitHistory /\ [][NextHistory]_vars

(***************************************************************************)
(* views.py: CustomTokenObtainPairView, CustomTokenRefreshView, LogoutView *)
(* (lines 73-186, 221-243); authentication.py: CookieJWTAuthentication.    *)
(***************************************************************************)
Issued == 1..Len(tokenUser)

\* get_validated_token / RefreshToken(value): the token was issued and its
\* lifetime is not over; a refresh token must also be off the blacklist.
TokenValid(t) == t \in Issued /\ t \notin expired
RefreshValid(t) == TokenValid(t) /\ t \notin blacklist

\* CookieJWTAuthentication.authenticate: no cookie or an invalid token is no
\* authentication, else the user of the token.
Authenticate(cookies) ==
  IF cookies.access_token = NoToken THEN Guest
  ELSE IF ~TokenValid(cookies.access_token) THEN Guest
  ELSE tokenUser[cookies.access_token]

\* The view returns its Response; the tables of the tokens are as given.
AuthAnswer(op, user, valid, outcome, resp, cookies) ==
  alast' = Authed(op, user, jar, valid, outcome, resp, cookies)

\* CustomTokenObtainPairView.post: wrong credentials are refused by the
\* serializer (401); otherwise a pair of tokens is issued, both cookies are
\* set and the body holds the user's details.
Login ==
  /\ alast = NoAuth
  /\ Len(tokenUser) + 2 <= MaxTokens
  /\ \E user \in Users : \E credentialsOk \in BOOLEAN :
       IF credentialsOk
         THEN /\ tokenUser' = tokenUser \o <<user, user>>
              /\ AuthAnswer("login", Guest, FALSE, "issued",
                   Response(200, UserBody(user)),
                   SetAuthCookies(Len(tokenUser) + 1, Len(tokenUser) + 2))
         ELSE /\ tokenUser' = tokenUser
              /\ AuthAnswer("login", Guest, FALSE, "refused",
                   Response(401, MessageBody("AuthenticationFailed")), NoCookies)
  /\ UNCHANGED <<mlvars, cachevars, metavars, predvars, uservars, expired,
                 blacklist, jar>>

\* The Response of lines 142-155 when super().post raises an exception of
\* class cls for a refresh token that is not valid: TokenError is answered
\* 401 and, its message naming the token invalid or blacklisted, the cookies
\* are cleared; any other exception is answered 500.
RefreshFailure(cls) ==
  IF cls = "TokenError"
    THEN <<Response(401, MessageBody("TokenError")), ClearAuthCookies>>
    ELSE <<Response(500, MessageBody("unexpected")), NoCookies>>

\* The body of the Response of a successful refresh, line 174, for the data
\* of the Response of super().post.
RefreshBody(user) == MessageBody("Access token refreshed successfully.")

\* CustomTokenRefreshView.post, lines 119-186.  super().post validates the
\* refresh token: for a valid token it returns 200 with a new access token
\* and, when the tokens rotate, a new refresh token, the old one going to
\* the blacklist or not; for another token it raises TokenError or the
\* APIException made of it.
Refresh ==
  /\ alast = NoAuth
  /\ IF jar.refresh_token = NoToken
       THEN /\ AuthAnswer("refresh", Authenticate(jar), FALSE, "absent",
                 Response(401, MessageBody("Refresh token not found in cookie.")),
                 NoCookies)
            /\ UNCHANGED <<tokenUser, blacklist>>
     ELSE IF RefreshValid(jar.refresh_token)
       THEN \E rotate \in BOOLEAN : \E toBlacklist \in BOOLEAN :
              /\ Len(tokenUser) + (IF rotate THEN 2 ELSE 1) <= MaxTokens
              /\ tokenUser' =
                   tokenUser \o
                     (IF rotate
                        THEN <<tokenUser[jar.refresh_token],
                               tokenUser[jar.refresh_token]>>
                        ELSE <<tokenUser[jar.refresh_token]>>)
              /\ blacklist' = IF rotate /\ toBlacklist
                                THEN blacklist \cup {jar.refresh_token}
                                ELSE blacklist
              /\ AuthAnswer("refresh", Authenticate(jar), TRUE, "issued",
                   Response(200, RefreshBody(tokenUser[jar.refresh_token])),
                   SetAuthCookies(Len(tokenUser) + 1,
                     IF rotate THEN Len(tokenUser) + 2 ELSE NoToken))
     ELSE \E cls \in {"TokenError", "APIException"} :
            /\ AuthAnswer("refresh", Authenticate(jar), FALSE, cls,
                 RefreshFailure(cls)[1], RefreshFailure(cls)[2])
            /\ UNCHANGED <<tokenUser, blacklist>>
  /\ UNCHANGED <<mlvars, cachevars, metavars, predvars, uservars, expired, jar>>

\* What RefreshToken(value) and token.blacklist() of lines 232-233 do: the
\* token goes to the blacklist, or TokenError for a token that is not valid,
\* or another exception (the blacklist is not installed, the database fails).
BlacklistOutcomes(t) ==
  IF RefreshValid(t) THEN {"blacklisted", "Exception"}
  ELSE {"TokenError", "Exception"}

\* A variant of lines 231-238 without the clause for unexpected exceptions.
LogoutResponseUncaught(outcome) ==
  IF outcome = "Exception"
    THEN <<Response(500, ErrorValue), NoCookies>>
    ELSE <<Response(200, MessageBody("Logout successful.")), ClearAuthCookies>>

\* Lines 225 and 230-243: whatever became of the refresh token ("absent"
\* when there is no such cookie), the Response is the 200 made at line 225
\* with both cookies cleared.
LogoutResponse(outcome) ==
  <<Response(200, MessageBody("Logout successful.")), ClearAuthCookies>>

\* LogoutView.post, lines 221-243: IsAuthenticated refuses a request without
\* a user; otherwise the refresh token of the cookie is blacklisted.
Logout ==
  /\ alast = NoAuth
  /\ IF Authenticate(jar) = Guest
       THEN /\ AuthAnswer("logout", Guest, FALSE, "refused",
                 Response(NotAuthenticatedStatus, MessageBody("NotAuthenticated")),
                 NoCookies)
            /\ blacklist' = blacklist
     ELSE IF jar.refresh_token = NoToken
       THEN /\ AuthAnswer("logout", Authenticate(jar), FALSE, "absent",
                 LogoutResponse("absent")[1], LogoutResponse("absent")[2])
            /\ blacklist' = blacklist
     ELSE \E outcome \in BlacklistOutcomes(jar.refresh_token) :
            /\ blacklist' = IF outcome = "blacklisted"
                              THEN blacklist \cup {jar.refresh_token}
                              ELSE blacklist
            /\ AuthAnswer("logout", Authenticate(jar),
                 RefreshValid(jar.refresh_token), outcome,
                 LogoutResponse(outcome)[1], LogoutResponse(outcome)[2])
  /\ UNCHANGED <<mlvars, cachevars, metavars, predvars, uservars, tokenUser,
                 expired, jar>>

\* The lifetime of a token of the browser ends.
TokenExpires ==
  /\ alast = NoAuth
  /\ \E t \in {jar.access_token, jar.refresh_token} \cap Issued :
       /\ t \notin expired
       /\ expired' = expired \cup {t}
  /\ UNCHANGED <<mlvars, cachevars, metavars, predvars, uservars, tokenUser,
                 blacklist, jar, alast>>

\* The browser drops one of its cookies.
CookieLost ==
  /\ alast = NoAuth
  /\ \E name \in {"access_token", "refresh_token"} :
       /\ jar[name] # NoToken
       /\ jar' = [jar EXCEPT ![name] = NoToken]
  /\ UNCHANGED <<mlvars, cachevars, metavars, predvars, uservars, tokenUser,
                 expired, blacklist, alast>>

\* What the browser holds under a name after a Response: the cookie is
\* kept when the Response does not name it, dropped when it is cleared.
Received(old, new) ==
  IF new = NoToken THEN old ELSE IF new = Cleared THEN NoToken ELSE new

\* The Response reaches the browser, which takes its cookies.
AuthRespond ==
  /\ alast # NoAuth
  /\ jar' = Cookies(Received(jar.access_token, alast.cookies.access_token),
                    Received(jar.refresh_token, alast.cookies.refresh_token))
  /\ alast' = NoAuth
  /\ UNCHANGED <<mlvars, cachevars, metavars, predvars, uservars, tokenUser,
                 expired, blacklist>>

NextAuth ==
  \/ Login
  \/ Refresh
  \/ Logout
  \/ TokenExpires
  \/ CookieLost
  \/ AuthRespond

SpecAuth == InitAuth /\ [][NextAuth]_vars
(***************************************************************************)
(* Properties of the inference service (ml_service.py), under SpecML.      *)
(***************************************************************************)
\* C1: while the artifact is loadable throughout, concurrent callers of
\* get_price_prediction construct exactly one MLModel instance, load the
\* artifact exactly once and all invoke the model of that one load.
C1_SingleInstanceSingleLoad ==
  (artifact = "ok" /\ artifactChanges = 0) =>
    /\ constructed <= 1
    /\ loadsOk <= 1
    /\ mllast.model \in {NoModel, 1}

\* C2: once a model load has failed, every later call of get_price_prediction
\* with a feature record fails with the model-unavailable error, also after
\* the artifact has become available (no self-healing).
C2_FailedLoadIsPermanent ==
  (mllast.afterFail /\ mllast.input = Record) =>
    mllast.out.kind = "ModelUnavailable"

\* C3: once the first load attempt has completed, with success or failure,
\* the installed model reference (or its absence) stays the one of that first
\* completion: a loaded service stays loaded with that model, a failed one
\* stays without a model.
C3_TerminalStatesAbsorbing ==
  firstLoadDone => Installed = installedAtFirst

C5_PriceNonNegative ==
  mllast.out.kind = "Price" => mllast.out.price[1] >= 0

\* C6: when the model invocation or the transform raises inside predict, the
\* call ends with that error and returns no price; a price is only returned
\* by a call whose try block completed.
C6_ErrorsSurface ==
  /\ mllast.raised => mllast.out = Outcome("InferenceError", NoPrice)
  /\ mllast.out.kind = "Price" => (mllast.model # NoModel /\ ~mllast.raised)
  /\ mllast.out.kind # "Price" => mllast.out.price = NoPrice

\* Reached: a call whose model invocation (or transform) raised has ended.
C6_Witness == mllast.model # NoModel /\ mllast.raised

\* floor(exp(n / 2) - 1) from the values of the exponential: exp(x) - 1 lies
\* in (-1, 0) for x < 0; exp(0.5) = 1.648..., exp(1) = 2.718...,
\* exp(1.5) = 4.481..., exp(2) = 7.389...
FloorOfExpm1(n) ==
  CASE n < 0 -> 0 - 1
    [] n \in {0, 1} -> 0
    [] n = 2 -> 1
    [] n = 3 -> 3
    [] OTHER -> 6

\* C24: a call of predict that returns a price has invoked the loaded model
\* once, on a frame whose single row is the given record, and the price is
\* floor(exp(raw) - 1) of what the model returned: not the raw output, and
\* not rounded up or to the nearest integer.
C24_PriceIsFlooredExpm1 ==
  mllast.out.kind = "Price"
    => /\ mllast.model # NoModel
       /\ mllast.frames = <<(<<mllast.input>>)>>
       /\ mllast.raw.kind = "value"
       /\ mllast.out.price = <<FloorOfExpm1(mllast.raw.raw)>>

\* A call returns the price of the raw output 0.5, where flooring, rounding
\* to the nearest integer and the raw output all differ.
C24_Witness ==
  /\ mllast.out.kind = "Price"
  /\ mllast.raw = Behaviour("value", 1)
  /\ mllast.out.price = <<0>>

(***************************************************************************)
(* Properties of the metadata cache (views.py), under SpecCache.           *)
(***************************************************************************)
\* C7: a request that finds its view's cache entry present and not expired
\* is answered 200 with the cached value and makes no query on the table,
\* whatever the table holds (the empty table included).
C7_HitServedFromCache ==
  rlast.obs = "live" =>
    /\ rlast.resp = Response(200, rlast.cached)
    /\ rlast.reads = 0

\* C8: a request that finds its view's cache entry absent or expired gets
\* nothing from the cache; when its queries succeed it has run all of them,
\* the entry under the view's key then holds the value it returns and expires
\* 3600 s (dropdown options) or 86400 s (brand-model mapping) from now, and
\* on a table that no import has touched that value is the one computed from
\* the table.
C8_MissRecomputesAndStores ==
  rlast.obs \in {"absent", "expired"} =>
    /\ rlast.cached = NoneValue
    /\ rlast.resp.status \in {200, 500}
    /\ rlast.resp.status = 200 =>
         /\ rlast.reads = Len(Queries(rlast.view))
         /\ cache[rlast.view] =
              Entry(rlast.resp.body,
                    now + (IF rlast.view = DropdownKey THEN 3600 ELSE 86400))
         /\ imports = 0 => rlast.resp.body = Reference(rlast.view, table)

\* Reached: a request found an expired entry of a non-empty table's value,
\* recomputed and stored it.
C8_Witness ==
  /\ rlast.obs = "expired"
  /\ rlast.resp.status = 200
  /\ Truthy(rlast.resp.body)
  /\ cache[rlast.view].expires > now

\* C9: under every interleaving of concurrent requests, cache.get yields
\* None or the whole value of the stored entry; an entry is only written by a
\* request that has the results of all its view's queries, with the value
\* built from them, which is also what that request returns; and every 200
\* Response carries either such a value or the value read from the cache.
C9_NoPartialValue ==
  [][/\ \A key \in Views :
          cache'[key] # cache[key] =>
            \E r \in Clients :
              /\ rop[r] = key
              /\ DOMAIN rloc[r] = QueryNames(key)
              /\ cache'[key].value = BuiltValue(key, rloc[r])
              /\ rlast' = Answered(r, robs[r], rcached[r],
                                   Len(Queries(key)),
                                   Response(200, cache'[key].value))
     /\ \A r \in Clients :
          (rpc[r] = "get" /\ rpc'[r] # "get") =>
            LET got == IF rpc'[r] = "answered" THEN rlast'.cached
                       ELSE rcached'[r]
            IN \/ got = NoneValue
               \/ cache[rop[r]].present /\ got = cache[rop[r]].value
     /\ (rlast' # rlast /\ rlast'.resp.status = 200) =>
          \/ /\ rlast'.reads = 0
             /\ rlast'.resp.body = cache[rlast'.view].value
          \/ /\ DOMAIN rloc[rlast'.client] = QueryNames(rlast'.view)
             /\ rlast'.resp.body =
                  BuiltValue(rlast'.view, rloc[rlast'.client])
    ]_vars

\* Reached: a request has stored and returned its value while another
\* request of the same view is in the middle of its queries.
C9_Witness ==
  /\ rlast.resp.status = 200
  /\ rlast.reads > 0
  /\ cache[rlast.view].present
  /\ \E r \in Clients :
       /\ r # rlast.client
       /\ rop[r] = rlast.view
       /\ rpc[r] = "query"
       /\ rstep[r] > 1

\* C10: a step that changes the table leaves the cache as it is; while an
\* entry has not expired its value stays the one stored at the last miss,
\* and a request that finds such an entry and succeeds returns that value.
C10_DatasetWritesKeepCache ==
  [][/\ table' # table => cache' = cache
     /\ \A key \in Views :
          (cache[key].present /\ now < cache[key].expires) =>
            cache'[key].value = cache[key].value
     /\ (rlast' # rlast /\ rlast'.obs = "live" /\ rlast'.resp.status = 200) =>
          rlast'.resp.body = cache[rlast'.view].value
    ]_vars

\* C11: a request that is not served from the cache and ends before all the
\* queries of its view have run (a query failed) is answered 500 with the
\* error body; a 500 Response carries no options structure and no mapping,
\* and a 200 Response is only given from the cache or after all queries.
C11_DatasetFailureIsAnError ==
  /\ (/\ rlast.client # 0
      /\ rlast.reads < Len(Queries(rlast.view))
      /\ ~(rlast.reads = 0 /\ Truthy(rlast.cached))) =>
       rlast.resp = Response(500, ErrorValue)
  /\ rlast.resp.status = 200 =>
       rlast.reads \in {0, Len(Queries(rlast.view))}
  /\ rlast.resp.status # 200 => rlast.resp.body \in {NoneValue, ErrorValue}

\* Reached: a dropdown request failed at a later query, with the results of
\* its earlier queries at hand.
C11_Witness ==
  /\ rlast.view = DropdownKey
  /\ rlast.reads > 0
  /\ rlast.resp.status = 500

(***************************************************************************)
(* Properties of one computation of a view, under SpecMetadata.            *)
(***************************************************************************)
\* C12: the mapping computed from a table has as keys exactly the brands of
\* the rows whose brand and car_model are both non-empty, and under each
\* brand exactly the car models of those rows, each once, in ascending order.
C12_MappingIsGroupedPairs ==
  computed.view = MappingKey =>
    LET mapping == computed.value.v
        pairs == ValidPairs(dataset)
    IN /\ DOMAIN mapping = {p[1] : p \in pairs}
       /\ \A brand \in DOMAIN mapping :
            /\ StrictlyAscending(mapping[brand])
            /\ Elements(mapping[brand]) =
                 {p[2] : p \in {q \in pairs : q[1] = brand}}

\* Reached: a mapping of two brands computed from a table that holds a pair
\* twice and a row with an empty brand.
C12_Witness ==
  /\ computed.view = MappingKey
  /\ Cardinality(DOMAIN computed.value.v) = 2
  /\ \E x \in dataset : x.brand = 0 /\ x.car_model # 0
  /\ \E x, y \in dataset :
       x # y /\ x.brand = y.brand /\ x.car_model = y.car_model /\ x.brand # 0

\* C13: the dropdown options computed from a table hold, for each of the six
\* categorical fields, the values of that field over the rows, each once, in
\* ascending order, and for year_of_production and number_of_doors the
\* least and the greatest value over the rows.
C13_DropdownIsSortedDistinct ==
  computed.view = DropdownKey =>
    LET options == computed.value.v
    IN /\ DOMAIN options = CategoricalFields \cup NumericFields
       /\ \A field \in CategoricalFields :
            /\ StrictlyAscending(options[field])
            /\ Elements(options[field]) = FieldValues(dataset, field)
       /\ \A field \in NumericFields :
            dataset # {} =>
              /\ Len(options[field].min) = 1
              /\ Len(options[field].max) = 1
              /\ options[field].min[1] \in FieldValues(dataset, field)
              /\ options[field].max[1] \in FieldValues(dataset, field)
              /\ \A x \in FieldValues(dataset, field) :
                   options[field].min[1] <= x /\ x <= options[field].max[1]

\* Reached: options computed from a table in which a brand occurs in two
\* rows and the years differ.
C13_Witness ==
  /\ computed.view = DropdownKey
  /\ \E x, y \in dataset : x # y /\ x.brand = y.brand
  /\ computed.value.v["year_of_production"].min #
       computed.value.v["year_of_production"].max
  /\ Len(computed.value.v["brand"]) = 2

(***************************************************************************)
(* Properties of the views on an empty table, under SpecCache.             *)
(***************************************************************************)
\* The dropdown options of a table without rows.
EmptyDropdownOptions ==
  DictValue(DropdownKey,
    [brand |-> << >>, car_model |-> << >>, fuel_type |-> << >>,
     transmission |-> << >>, body |-> << >>, color |-> << >>,
     year_of_production |-> [min |-> None, max |-> None],
     number_of_doors |-> [min |-> None, max |-> None]])

\* C14: while the table has never held a row, a dropdown request is answered
\* 200 with all eight keys, the six categorical ones empty lists and the two
\* ranges {min: None, max: None}; the only other answer is the 500 of a
\* request one of whose eight queries failed.
C14_EmptyTableDropdown ==
  (/\ rlast.client # 0
   /\ rlast.view = DropdownKey
   /\ table = {}
   /\ imports = 0) =>
     \/ rlast.resp = Response(200, EmptyDropdownOptions)
     \/ /\ rlast.resp.status = 500
        /\ rlast.reads < 8

\* Reached: a dropdown request has run its eight queries on the empty table
\* and has been answered 200.
C14_Witness ==
  /\ rlast.view = DropdownKey
  /\ table = {}
  /\ imports = 0
  /\ rlast.reads = 8
  /\ rlast.resp.status = 200

\* C15: while the table has never held a row, every brand-model mapping
\* request, the first and the later ones, is answered 200 with the empty
\* mapping; the only other answer is the 500 of a request whose query failed.
C15_EmptyTableMapping ==
  (/\ rlast.client # 0
   /\ rlast.view = MappingKey
   /\ table = {}
   /\ imports = 0) =>
     \/ rlast.resp = Response(200, DictValue(MappingKey, << >>))
     \/ /\ rlast.resp.status = 500
        /\ rlast.reads = 0

\* Reached: a later mapping request on the empty table, made while the entry
\* of an earlier one is in the cache, has been answered 200.
C15_Witness ==
  /\ rlast.view = MappingKey
  /\ table = {}
  /\ imports = 0
  /\ rlast.obs = "live"
  /\ rlast.resp = Response(200, DictValue(MappingKey, << >>))

(***************************************************************************)
(* PredictPriceView (SpecPredict).                                         *)
(***************************************************************************)
\* C16: a prediction request of a guest never creates, changes or deletes a
\* stored prediction: every step that changes the Prediction table is the
\* answer to an authenticated caller, the step that answers a guest leaves
\* the table as it was, and the guest's Response is 200 with the predicted
\* price and the input and without a record id.
C16_GuestNeverStores ==
  [][/\ predictions' # predictions => plast'.user \in Users
     /\ (plast = NoPrediction /\ plast' # NoPrediction /\ plast'.user = Guest)
          => /\ predictions' = predictions
             /\ plast'.created = {}
             /\ plast'.out.kind = "Price"
             /\ plast'.resp =
                  Response(200, GuestResult(ValidatedData(plast'.data),
                                            plast'.out.price[1]))
             /\ "id" \notin DOMAIN plast'.resp.body]_vars

\* A guest is answered 200 while the table holds a row saved earlier.
C16_Witness ==
  /\ plast.user = Guest
  /\ plast.resp.status = 200
  /\ predictions # {}

\* C17: a valid request of an authenticated caller calls inference once and
\* creates one row, owned by the caller, with the validated input and the
\* price inference returned, and the 201 Response reports that row; such a
\* request is answered otherwise only when the database refuses the row.
C17_AuthenticatedStoresOne ==
  /\ (plast.user \in Users /\ plast.resp.status = 201)
       => /\ plast.inferences = 1
          /\ plast.out.kind = "Price"
          /\ FieldErrors(plast.data) \cup UnknownFields(plast.data) = {}
          /\ plast.created =
               {[id |-> plast.resp.body.id, user |-> plast.user,
                 features |-> ValidatedData(plast.data),
                 predicted_price |-> plast.out.price]}
          /\ plast.resp.body \in plast.created
          /\ plast.created \subseteq predictions
  /\ (plast.user \in Users /\ plast.resp.status # 201)
       => plast.resp = Response(500, ErrorValue) /\ plast.created = {}
  /\ \A a \in predictions : \A b \in predictions : a.id = b.id => a = b

\* An authenticated caller is answered 201 after another row was created.
C17_Witness ==
  /\ plast.user \in Users
  /\ plast.resp.status = 201
  /\ Cardinality(predictions) > 1
  /\ plast.resp.body.id = Cardinality(predictions)

\* C18: a request whose input has a declared field missing, blank or out of
\* its range, or an undeclared field, is answered 400 with errors that name
\* only such fields (the year 1800, a negative mileage, a missing brand, an
\* extra field on otherwise valid input), inference is not called for it
\* and no row is created.
C18_InvalidInputRejected ==
  (plast # NoPrediction /\
   FieldErrors(plast.data) \cup UnknownFields(plast.data) # {})
    => /\ plast.resp.status = 400
       /\ plast.resp.body.kind = "field_errors"
       /\ plast.resp.body.fields # {}
       /\ plast.resp.body.fields
            \subseteq FieldErrors(plast.data) \cup UnknownFields(plast.data)
       /\ (plast.data.year_of_production = 1800
             => "year_of_production" \in plast.resp.body.fields)
       /\ (plast.data.mileage < 0 => "mileage" \in plast.resp.body.fields)
       /\ ("brand" \notin DOMAIN plast.data
             => "brand" \in plast.resp.body.fields)
       /\ ("extra_field" \in DOMAIN plast.data /\ FieldErrors(plast.data) = {}
             => "extra_field" \in plast.resp.body.fields)
       /\ plast.inferences = 0
       /\ plast.out = NoOutcome
       /\ plast.created = {}

\* A request with an extra field on otherwise valid input is answered.
C18_Witness ==
  /\ plast # NoPrediction
  /\ "extra_field" \in DOMAIN plast.data
  /\ FieldErrors(plast.data) = {}
  /\ plast.resp.status = 400

\* C23: every error that get_price_prediction raises during a prediction
\* request (model unavailable, load or inference error) is answered with
\* the generic failure body, which carries no detail of the error.
C23_CoreErrorsGeneric ==
  (plast # NoPrediction /\ plast.inferences = 1 /\ plast.out.kind # "Price")
    => /\ plast.resp.status >= 400
       /\ plast.resp.body = ErrorValue
       /\ "detail" \notin DOMAIN plast.resp.body

\* C25: a prediction is stored only after inference has succeeded: the step
\* that answers a request whose get_price_prediction raised leaves the
\* Prediction table as it was, and every step that changes the table
\* answers a request whose inference returned a price.
C25_StoredOnlyAfterInference ==
  [][/\ (plast = NoPrediction /\ plast' # NoPrediction /\
         plast'.inferences = 1 /\ plast'.out.kind # "Price")
          => predictions' = predictions /\ plast'.created = {}
     /\ predictions' # predictions
          => plast'.inferences = 1 /\ plast'.out.kind = "Price"]_vars

\* A request whose inference raised is answered while the table holds rows.
C25_Witness ==
  /\ plast.inferences = 1
  /\ plast.out.kind \in {"ModelUnavailable", "ModelLoadError", "InferenceError"}
  /\ predictions # {}

(***************************************************************************)
(* RegisterView (SpecRegister).                                            *)
(***************************************************************************)
\* C19: after any registration requests, concurrent ones included, no two
\* accounts share a username or an email, and a registration whose username
\* or email belongs to an account when it is answered gets 400 and creates
\* no account.
C19_AccountsUnique ==
  /\ \A a \in accounts : \A b \in accounts :
       (a.username = b.username \/ a.email = b.email) => a = b
  /\ (ulast # NoRegistration /\ ulast.taken # {})
       => ulast.resp.status = 400 /\ ulast.created = {}

(***************************************************************************)
(* PredictionHistoryView (SpecHistory).                                    *)
(***************************************************************************)
\* C20: under every combination of filters, sort and page the history of an
\* authenticated user lists only rows of the table that this user owns, and
\* counts no more rows than the user owns; an answer other than 200 carries
\* no row; a request without an authenticated user is answered 401 and
\* carries no row.
C20_HistoryOnlyOwn ==
  /\ (hlast.user \in Users /\ hlast.resp.status = 200)
       => /\ \A i \in 1..Len(hlast.resp.body.results) :
               /\ hlast.resp.body.results[i].user = hlast.user
               /\ hlast.resp.body.results[i] \in predictions
          /\ hlast.resp.body.count
               <= Cardinality({row \in predictions : row.user = hlast.user})
  /\ (hlast.user \in Users /\ hlast.resp.status # 200)
       => hlast.resp \in {Response(500, ErrorValue),
                          Response(400, FieldErrorBody({"page"}))}
  /\ hlast.user = Guest
       => /\ hlast.resp.status = 401
          /\ "results" \notin DOMAIN hlast.resp.body

\* A user is listed a row while the table holds a row of another user.
C20_Witness ==
  /\ hlast.user \in Users
  /\ hlast.resp.status = 200
  /\ Len(hlast.resp.body.results) > 0
  /\ \E row \in predictions : row.user # hlast.user

(***************************************************************************)
(* Token refresh and logout (SpecAuth).                                    *)
(***************************************************************************)
\* C21: a refresh request that carries a valid refresh-token cookie is
\* answered 200, its Response sets an access-token cookie with a token that
\* differs from the access token the request carried, and the body holds
\* the details of the token's user.
C21_RefreshReturnsUser ==
  (alast.op = "refresh" /\ alast.valid)
    => /\ alast.resp.status = 200
       /\ alast.cookies.access_token \notin {NoToken, Cleared}
       /\ alast.cookies.access_token # alast.sent.access_token
       /\ alast.resp.body = UserBody(tokenUser[alast.sent.refresh_token])

\* C22: a logout request of an authenticated user is answered 200 with both
\* cookies cleared, whether the refresh-token cookie is absent, is
\* blacklisted, or blacklisting it raises.
C22_LogoutAlwaysClears ==
  (alast.op = "logout" /\ alast.user \in Users)
    => /\ alast.resp.status = 200
       /\ alast.cookies = Cookies(Cleared, Cleared)

\* A user logs out with a valid refresh token and blacklisting it raises.
C22_Witness ==
  /\ alast.op = "logout"
  /\ alast.user \in Users
  /\ alast.valid
  /\ alast.outcome = "Exception"
  /\ alast.sent.refresh_token \notin blacklist

(***************************************************************************)
(* Failing dataset access and the import command, under SpecCache.         *)
(***************************************************************************)
\* C26: the step that answers a request whose query failed leaves both
\* cache entries as they were, and right after the failure cache.get for the
\* view of the request still yields nothing usable, so the next request of
\* that view runs the queries again; a cache entry only changes in a step
\* that answers 200 after all the queries of the view.
C26_FailureWritesNothing ==
  [][/\ (rlast' # rlast /\ rlast'.resp.status = 500) =>
          /\ cache' = cache
          /\ ~Truthy(CacheGet(cache', rlast'.view, now'))
     /\ cache' # cache =>
          /\ rlast'.resp.status = 200
          /\ rlast'.reads = Len(Queries(rlast'.view))
    ]_vars

\* Reached: a dropdown request that found no entry failed at a later query
\* while the mapping stored by an earlier request is in the cache.
C26_Witness ==
  /\ rlast.view = DropdownKey
  /\ rlast.obs = "absent"
  /\ rlast.resp.status = 500
  /\ rlast.reads > 0
  /\ cache[MappingKey].present
  /\ ~cache[DropdownKey].present

\* Every state the listings can be in: as they were at the start, empty after
\* the delete of line 20, and the rows of a CSV file after bulk_create.
DatasetStates == InitTables \cup {{}} \cup CsvContents

\* C27: the value of the dropdown entry in the cache is the value the view
\* computes when all its queries run on one and the same state of the
\* listings, also when the import command deletes and inserts rows between
\* the queries of the request.
C27_CachedValueOfOneState ==
  /\ table \in DatasetStates
  /\ cache[DropdownKey].present =>
       \E T \in DatasetStates :
         cache[DropdownKey].value = Reference(DropdownKey, T)

\* C28: a run of the import command that does not reach bulk_create, because
\* the CSV file is missing, cannot be read or lacks a required column, ends
\* with every listing that existed when it started still in the table.
C28_FailedImportKeepsListings ==
  [][/\ (imports' # imports /\ imp' = ImportIdle) => table \subseteq table'
     /\ ImportFails => imp.before \subseteq table'
    ]_vars
====
